---- MODULE Spec2Model ----
(***************************************************************************)
(* Guam SVI calculator: the cache fallback driver (src/src/main.py) and    *)
(* the formula evaluator / scoring engine (src/src/compute_hsi.py).        *)
(*                                                                         *)
(* Spec     the driver main(): per dataset, live download, completeness    *)
(*          check, cache snapshot, cache fallback, abort; then merge,      *)
(*          enrichment and the output file.                                *)
(* SpecHsi  _evaluate_aliases / _add_percentiles over a wide table.        *)
(* SpecCfg  the two readers of variables.csv: group_variable_codes_by_     *)
(*          dataset (src/src/fetch.py) and _load_alias_map.                *)
(* SpecMerge  the loop and the merge of main() on tables with rows: the    *)
(*          cache snapshot written and read back, the left joins.          *)
(* SpecFetch  download_data (src/src/fetch.py): batches, requests, the     *)
(*          merge of the batch tables and the numeric coercion.            *)
(***************************************************************************)
EXTENDS Integers, Sequences, FiniteSets, TLC

VARIABLES
    \* ---- driver (main.py) ----
    dataset_map,   \* ordered {slug -> codes} of step 3-A, as a sequence of records
    cache,         \* the cache directory: cache key -> file
    pc,            \* position of main()
    idx,           \* index of the dataset the for-loop is at
    df_ds,         \* the loop's current dataset table
    exc,           \* the exception caught by `except Exception as exc`
    frames,        \* list of frames to merge
    df_raw,        \* merged frame
    enriched,      \* hsi() has returned df_enriched
    outfile,       \* the output CSV
    requests,      \* datasets for which requests were sent to the remote source
    exit,          \* how the process ended: the message of the fatal error
    \* ---- formula evaluator (compute_hsi.py) ----
    alias_map,     \* alias -> expression, in file order
    df,            \* the wide table _evaluate_aliases works on
    ai,            \* index of the alias the for-loop is at
    hpc,           \* position of _evaluate_aliases
    \* ---- readers of variables.csv (fetch.py, compute_hsi.py) ----
    cfg_rows,      \* the rows csv.DictReader yields, in file order
    gpc,           \* position of the readers
    gi,            \* index of the row the for-loop of the grouper is at
    buckets,       \* dataset -> token list, in insertion order
    seen,          \* dataset -> tokens already in its bucket
    loaded,        \* the dict _load_alias_map returns, in insertion order
    \* ---- main() on tables with rows (main.py) ----
    live_tables,   \* per dataset, the table download_data returns for it
    tpc,           \* position of main()
    ti,            \* index of the dataset the for-loop is at
    tds,           \* df_ds
    snap,          \* the cache file of the dataset the loop is at
    from_cache,    \* df_ds was read from the cache file
    tframes,       \* frames
    merged,        \* df_raw
    \* ---- download_data (fetch.py) ----
    var_codes,     \* the token list
    fpc,           \* position of download_data
    fi,            \* i of `for i in range(0, len(var_codes), CHUNK_SIZE)`
    sent,          \* the "get" field list of every request sent, in order
    partials,      \* the batch tables
    fdf            \* df

driverVars == <<dataset_map, cache, pc, idx, df_ds, exc, frames, df_raw,
                enriched, outfile, requests, exit>>

hsiVars == <<alias_map, df, ai, hpc>>

cfgVars == <<cfg_rows, gpc, gi, buckets, seen, loaded>>

mergeVars == <<live_tables, tpc, ti, tds, snap, from_cache, tframes, merged>>

fetchVars == <<var_codes, fpc, fi, sent, partials, fdf>>

extVars == <<cfgVars, mergeVars, fetchVars>>

vars == <<dataset_map, cache, pc, idx, df_ds, exc, frames, df_raw,
          enriched, outfile, requests, exit, alias_map, df, ai, hpc,
          extVars>>

\* the readers of variables.csv have not run
CfgIdle ==
    /\ cfg_rows = <<>>
    /\ gpc = "idle"
    /\ gi = 0
    /\ buckets = <<>>
    /\ seen = <<>>
    /\ loaded = <<>>

\* the row-level run of main() has not started
MergeIdle ==
    /\ live_tables = <<>>
    /\ tpc = "idle"
    /\ ti = 0
    /\ tds = <<>>
    /\ snap = <<>>
    /\ from_cache = FALSE
    /\ tframes = <<>>
    /\ merged = <<>>

\* download_data has not been called
FetchIdle ==
    /\ var_codes = <<>>
    /\ fpc = "idle"
    /\ fi = 0
    /\ sent = <<>>
    /\ partials = <<>>
    /\ fdf = <<>>

ExtIdle == CfgIdle /\ MergeIdle /\ FetchIdle

Range(s) == {s[i] : i \in DOMAIN s}

(***************************************************************************)
(* Bounds of the driver model.                                             *)
(***************************************************************************)
MaxDatasets == 2

(***************************************************************************)
(* Names.  A driver table is modelled by its column index (df.columns);    *)
(* cell values are the concern of SpecHsi.                                 *)
(***************************************************************************)
SlugNames == <<"dpgu", "dhcgu", "dpas", "dhcas">>

\* raw variable codes, in sorted() order
CodeOrder == <<"DP1_0001C", "DP1_0002C">>

Codes == Range(CodeOrder)

\* the code lists step 3-A can hand to the loop (ordered, duplicate free)
CodeLists == {<<>>, <<"DP1_0001C">>, <<"DP1_0001C", "DP1_0002C">>}

\* geokeys_for("place")
geokeys == {"state", "place"}

\* f"{args.year}_{args.state}_{args.geography}" of this run, and of another run
\* whose snapshots lie in the same cache directory
RunKey == "2020_66_place"

OtherRunKey == "2010_66_place"

cache_file(slug) == <<RunKey, slug>>

CacheKeys == {RunKey, OtherRunKey} \X Range(SlugNames)

NoFile == [exists |-> FALSE, cols |-> {}]

Table(tokens) == [exists |-> TRUE, cols |-> geokeys \cup {"NAME"} \cup tokens]

NoExc == [exc |-> "none", slugs |-> <<>>, vars |-> <<>>, count |-> 0]

\* sorted(missing) joined into the message
SortedCodes(S) == SelectSeq(CodeOrder, LAMBDA c : c \in S)

\* RuntimeError(f"missing {len(missing)} variables: {', '.join(sorted(missing))}")
MissingVarsError(missing) ==
    [exc |-> "RuntimeError", slugs |-> <<>>, vars |-> SortedCodes(missing),
     count |-> Cardinality(missing)]

\* sys.exit(f"Fatal: no cached copy for dataset '{slug}' and API fetch failed.")
FatalNoCache(slug) ==
    [exc |-> "SystemExit", slugs |-> <<slug>>, vars |-> <<>>, count |-> 0]

\* requests' HTTPError / timeout / JSON error raised inside download_data
TransportError == [exc |-> "HTTPError", slugs |-> <<>>, vars |-> <<>>, count |-> 0]

\* partials[0] on an empty list, frames[0] on an empty list
IndexError == [exc |-> "IndexError", slugs |-> <<>>, vars |-> <<>>, count |-> 0]

\* a completeness check that is content with any one requested column
MissingVarsAnyOne(frame, expected) ==
    IF expected \cap frame.cols # {} THEN {} ELSE expected \ frame.cols

\* expected.difference(df.columns)
MissingVars(frame, expected) == expected \ frame.cols

slug == dataset_map[idx].slug

codes == dataset_map[idx].codes

(***************************************************************************)
(* Init: the configuration's dataset map and the cache directory as found. *)
(***************************************************************************)
DatasetMaps ==
    UNION {{[i \in 1..n |-> [slug |-> SlugNames[i], codes |-> c[i]]] :
              c \in [1..n -> CodeLists]} : n \in 0..MaxDatasets}

CacheFiles == {NoFile} \cup {Table(S) : S \in SUBSET Codes}

Init ==
    /\ dataset_map \in DatasetMaps
    /\ \E found \in [1..MaxDatasets -> CacheFiles] :
         cache = [k \in CacheKeys |->
                    IF k[1] = OtherRunKey THEN Table({"DP1_0001C"})
                    ELSE IF \E i \in 1..MaxDatasets : SlugNames[i] = k[2]
                         THEN found[CHOOSE i \in 1..MaxDatasets :
                                      SlugNames[i] = k[2]]
                         ELSE NoFile]
    /\ pc = IF dataset_map = <<>> THEN "merge" ELSE "fetch"
    /\ idx = 1
    /\ df_ds = NoFile
    /\ exc = NoExc
    /\ frames = <<>>
    /\ df_raw = NoFile
    /\ enriched = FALSE
    /\ outfile = NoFile
    /\ requests = <<>>
    /\ exit = NoExc
    /\ alias_map = <<>>
    /\ df = <<>>
    /\ ai = 0
    /\ hpc = "idle"
    /\ ExtIdle

(***************************************************************************)
(* main(), step 3-B: the loop body.                                        *)
(***************************************************************************)
\* download_data returns a table: the response holds any part of the
\* requested codes; an empty code list sends no request at all
DownloadReturns ==
    /\ pc = "fetch"
    /\ codes # <<>>
    /\ \E S \in SUBSET Range(codes) : df_ds' = Table(S)
    /\ requests' = Append(requests, slug)
    /\ pc' = "assert_live"
    /\ UNCHANGED <<dataset_map, cache, idx, exc, frames, df_raw, enriched,
                   outfile, exit,
                   alias_map, df, ai, hpc, extVars>>

\* download_data raises: a transport failure, or partials[0] of no partials
DownloadRaises ==
    /\ pc = "fetch"
    /\ IF codes = <<>>
       THEN exc' = IndexError /\ requests' = requests
       ELSE exc' = TransportError /\ requests' = Append(requests, slug)
    /\ pc' = "except"
    /\ UNCHANGED <<dataset_map, cache, idx, df_ds, frames, df_raw, enriched,
                   outfile, exit,
                   alias_map, df, ai, hpc, extVars>>

\* a driver that snapshots the live table whatever the completeness check says
AssertLiveThenPersistAnyway ==
    /\ pc = "assert_live"
    /\ exc' = exc
    /\ pc' = "persist"
    /\ UNCHANGED <<dataset_map, cache, idx, df_ds, frames, df_raw, enriched,
                   outfile, requests, exit,
                   alias_map, df, ai, hpc, extVars>>

\* _assert_all_vars_present(df_ds, set(codes)) on the live table
AssertLive ==
    /\ pc = "assert_live"
    /\ IF MissingVars(df_ds, Range(codes)) # {}
       THEN exc' = MissingVarsError(MissingVars(df_ds, Range(codes)))
            /\ pc' = "except"
       ELSE exc' = exc /\ pc' = "persist"
    /\ UNCHANGED <<dataset_map, cache, idx, df_ds, frames, df_raw, enriched,
                   outfile, requests, exit,
                   alias_map, df, ai, hpc, extVars>>

\* df_ds.to_csv(cache_file, index=False)
Persist ==
    /\ pc = "persist"
    /\ cache' = [cache EXCEPT ![cache_file(slug)] = df_ds]
    /\ pc' = "append"
    /\ UNCHANGED <<dataset_map, idx, df_ds, exc, frames, df_raw, enriched,
                   outfile, requests, exit,
                   alias_map, df, ai, hpc, extVars>>

\* except branch, cache_file.exists(): pd.read_csv(cache_file)
FallbackLoad ==
    /\ pc = "except"
    /\ cache[cache_file(slug)].exists
    /\ df_ds' = cache[cache_file(slug)]
    /\ pc' = "assert_cache"
    /\ UNCHANGED <<dataset_map, cache, idx, exc, frames, df_raw, enriched,
                   outfile, requests, exit,
                   alias_map, df, ai, hpc, extVars>>

\* a driver that, finding no cache file, goes on to the next dataset
FallbackSkipsDataset ==
    /\ pc = "except"
    /\ ~cache[cache_file(slug)].exists
    /\ exit' = exit
    /\ pc' = "append"
    /\ UNCHANGED <<dataset_map, cache, idx, df_ds, exc, frames, df_raw,
                   enriched, outfile, requests,
                   alias_map, df, ai, hpc, extVars>>

\* except branch, no cache file: sys.exit(...)
FallbackAbort ==
    /\ pc = "except"
    /\ ~cache[cache_file(slug)].exists
    /\ exit' = FatalNoCache(slug)
    /\ pc' = "exit"
    /\ UNCHANGED <<dataset_map, cache, idx, df_ds, exc, frames, df_raw,
                   enriched, outfile, requests,
                   alias_map, df, ai, hpc, extVars>>

\* _assert_all_vars_present on the cached table; its RuntimeError is raised
\* inside the except block and nothing catches it
AssertCache ==
    /\ pc = "assert_cache"
    /\ IF MissingVars(df_ds, Range(codes)) # {}
       THEN exit' = MissingVarsError(MissingVars(df_ds, Range(codes)))
            /\ pc' = "exit"
       ELSE exit' = exit /\ pc' = "append"
    /\ UNCHANGED <<dataset_map, cache, idx, df_ds, exc, frames, df_raw,
                   enriched, outfile, requests,
                   alias_map, df, ai, hpc, extVars>>

\* frames.append(df_ds), and the loop's next iteration or its end
AppendFrame ==
    /\ pc = "append"
    /\ frames' = Append(frames, df_ds)
    /\ idx' = idx + 1
    /\ pc' = IF idx + 1 > Len(dataset_map) THEN "merge" ELSE "fetch"
    /\ exc' = NoExc
    /\ UNCHANGED <<dataset_map, cache, df_ds, df_raw, enriched, outfile,
                   requests, exit,
                   alias_map, df, ai, hpc, extVars>>

(***************************************************************************)
(* main(), steps 3-C .. 3-F.                                               *)
(***************************************************************************)
\* columns of left.merge(right, on=geokeys, how="left"): columns the two
\* sides share get the suffixes _x and _y
MergeCols(left, right) ==
    LET overlap == (left \cap right) \ geokeys
    IN  (left \ overlap) \cup (right \ overlap)
          \cup {c \o "_x" : c \in overlap} \cup {c \o "_y" : c \in overlap}

RECURSIVE MergeFrames(_, _)
MergeFrames(acc, rest) ==
    IF rest = <<>> THEN acc
    ELSE MergeFrames(MergeCols(acc, Head(rest).cols), Tail(rest))

Merge ==
    /\ pc = "merge"
    /\ IF frames = <<>>
       THEN /\ exit' = IndexError
            /\ pc' = "exit"
            /\ df_raw' = df_raw
       ELSE /\ df_raw' = [exists |-> TRUE,
                          cols |-> MergeFrames(frames[1].cols, Tail(frames))]
            /\ pc' = "hsi"
            /\ exit' = exit
    /\ UNCHANGED <<dataset_map, cache, idx, df_ds, exc, frames, enriched,
                   outfile, requests,
                   alias_map, df, ai, hpc, extVars>>

\* df_enriched = hsi(df_raw, config_path=args.config); the columns it adds
\* are modelled in SpecHsi
Enrich ==
    /\ pc = "hsi"
    /\ enriched' = TRUE
    /\ pc' = "write"
    /\ UNCHANGED <<dataset_map, cache, idx, df_ds, exc, frames, df_raw,
                   outfile, requests, exit,
                   alias_map, df, ai, hpc, extVars>>

\* df_enriched.to_csv(args.outfile, index=False)
WriteOutput ==
    /\ pc = "write"
    /\ outfile' = df_raw
    /\ pc' = "done"
    /\ UNCHANGED <<dataset_map, cache, idx, df_ds, exc, frames, df_raw,
                   enriched, requests, exit,
                   alias_map, df, ai, hpc, extVars>>

Next ==
    \/ DownloadReturns
    \/ DownloadRaises
    \/ AssertLive
    \/ Persist
    \/ FallbackLoad
    \/ FallbackAbort
    \/ AssertCache
    \/ AppendFrame
    \/ Merge
    \/ Enrich
    \/ WriteOutput

Spec == Init /\ [][Next]_vars

(***************************************************************************)
(* Text.  A Python str is a sequence of one-character strings, so that     *)
(* the regular expression, str.replace and the expression parser work on   *)
(* the characters the code works on.                                       *)
(***************************************************************************)
UpperSeq == <<"A", "B", "C", "D", "E", "F", "G", "H", "I", "J", "K", "L", "M",
              "N", "O", "P", "Q", "R", "S", "T", "U", "V", "W", "X", "Y", "Z">>

LowerSeq == <<"a", "b", "c", "d", "e", "f", "g", "h", "i", "j", "k", "l", "m",
              "n", "o", "p", "q", "r", "s", "t", "u", "v", "w", "x", "y", "z">>

DigitSeq == <<"0", "1", "2", "3", "4", "5", "6", "7", "8", "9">>

UpperChars == Range(UpperSeq)

LowerChars == Range(LowerSeq)

DigitChars == Range(DigitSeq)

\* \w
WordChars == UpperChars \cup LowerChars \cup DigitChars \cup {"_"}

\* the character at position i, "" outside the string
At(s, i) == IF i \in 1..Len(s) THEN s[i] ELSE ""

\* \b before position i
WordBoundary(s, i) == (At(s, i - 1) \in WordChars) # (At(s, i) \in WordChars)

AllIn(s, from, n, class) == \A k \in from..(from + n - 1) : At(s, k) \in class

\* TOKEN_RE = \b[A-Z]{1,4}\d{0,3}_[0-9]{4}[A-Z]?\b matched at position i with
\* nl letters, nd digits and ns suffix letters
TokenMatchWith(s, i, nl, nd, ns) ==
    /\ WordBoundary(s, i)
    /\ AllIn(s, i, nl, UpperChars)
    /\ AllIn(s, i + nl, nd, DigitChars)
    /\ At(s, i + nl + nd) = "_"
    /\ AllIn(s, i + nl + nd + 1, 4, DigitChars)
    /\ AllIn(s, i + nl + nd + 5, ns, UpperChars)
    /\ WordBoundary(s, i + nl + nd + 5 + ns)

\* the quantifiers' choices, and the order in which the greedy engine
\* tries them: most letters first, then most digits, then the suffix
QuantChoices == (1..4) \X (0..3) \X (0..1)

TriedBefore(c, d) ==
    \/ c[1] > d[1]
    \/ c[1] = d[1] /\ c[2] > d[2]
    \/ c[1] = d[1] /\ c[2] = d[2] /\ c[3] >= d[3]

\* end (exclusive) of the match of TOKEN_RE at position i, 0 when none
TokenMatchEnd(s, i) ==
    LET good == {c \in QuantChoices : TokenMatchWith(s, i, c[1], c[2], c[3])}
    IN  IF good = {} THEN 0
        ELSE LET c == CHOOSE c \in good : \A d \in good : TriedBefore(c, d)
             IN  i + c[1] + c[2] + 5 + c[3]

\* TOKEN_RE.findall(expr) from position i on: matches left to right, the
\* search resuming where a match ended
RECURSIVE FindAllFrom(_, _)
FindAllFrom(s, i) ==
    IF i > Len(s) THEN <<>>
    ELSE LET e == TokenMatchEnd(s, i)
         IN  IF e > 0 THEN <<SubSeq(s, i, e - 1)>> \o FindAllFrom(s, e)
             ELSE FindAllFrom(s, i + 1)

TOKEN_RE_findall(expr) == FindAllFrom(expr, 1)

\* TOKEN_RE.fullmatch(expr): some choice of the quantifiers spans the string
TOKEN_RE_fullmatch(expr) ==
    \E c \in QuantChoices :
        /\ TokenMatchWith(expr, 1, c[1], c[2], c[3])
        /\ 1 + c[1] + c[2] + 5 + c[3] = Len(expr) + 1

\* s.replace(old, new) from position i on: every occurrence, left to right,
\* without overlap
RECURSIVE ReplaceFrom(_, _, _, _)
ReplaceFrom(s, old, new, i) ==
    IF i + Len(old) - 1 > Len(s) THEN SubSeq(s, i, Len(s))
    ELSE IF SubSeq(s, i, i + Len(old) - 1) = old
         THEN new \o ReplaceFrom(s, old, new, i + Len(old))
         ELSE <<s[i]>> \o ReplaceFrom(s, old, new, i + 1)

str_replace(s, old, new) == ReplaceFrom(s, old, new, 1)

\* f"df['{token}']"
DfRef(token) == <<"d", "f", "[", "'">> \o token \o <<"'", "]">>

\* lines 100-102: safe_expr after wrapping the first k tokens found
RECURSIVE WrapTokens(_, _, _)
WrapTokens(safe_expr, tokens, k) ==
    IF k = 0 THEN safe_expr
    ELSE str_replace(WrapTokens(safe_expr, tokens, k - 1), tokens[k],
                     DfRef(tokens[k]))

SafeExpr(expr) ==
    LET tokens == TOKEN_RE_findall(expr)
    IN  WrapTokens(expr, tokens, Len(tokens))

\* str.upper() on the letters
UpperOf(c) ==
    IF c \in LowerChars
    THEN UpperSeq[CHOOSE i \in 1..26 : LowerSeq[i] = c]
    ELSE c

str_upper(s) == [i \in 1..Len(s) |-> UpperOf(s[i])]

\* str.strip() of blanks
RECURSIVE str_lstrip(_)
str_lstrip(s) ==
    IF s # <<>> /\ Head(s) = " " THEN str_lstrip(Tail(s)) ELSE s

RECURSIVE str_rstrip(_)
str_rstrip(s) ==
    IF s # <<>> /\ s[Len(s)] = " " THEN str_rstrip(SubSeq(s, 1, Len(s) - 1))
    ELSE s

str_strip(s) == str_rstrip(str_lstrip(s))

(***************************************************************************)
(* float64 cells.  <<n, d>> with d > 0 is the number n/d in lowest terms;  *)
(* <<0, 0>> is NaN (missing), <<1, 0>> and <<-1, 0>> are +inf and -inf.    *)
(* Arithmetic is numpy's: no operation on cells raises.  Binary rounding   *)
(* and the sign of zero are not modelled.                                  *)
(***************************************************************************)
NaN == <<0, 0>>

PosInf == <<1, 0>>

NegInf == <<-1, 0>>

Num(n) == <<n, 1>>

IsNaN(a) == a = NaN

IsInf(a) == a[2] = 0 /\ a[1] # 0

Abs(n) == IF n < 0 THEN -n ELSE n

Sign(n) == IF n > 0 THEN 1 ELSE IF n < 0 THEN -1 ELSE 0

RECURSIVE GCD(_, _)
GCD(a, b) == IF b = 0 THEN a ELSE GCD(b, a % b)

\* n/d for d > 0, in lowest terms
Ratio(n, d) == LET g == GCD(Abs(n), d) IN <<n \div g, d \div g>>

FNeg(a) == <<-a[1], a[2]>>

FAdd(a, b) ==
    IF IsNaN(a) \/ IsNaN(b) THEN NaN
    ELSE IF IsInf(a) /\ IsInf(b) THEN (IF a = b THEN a ELSE NaN)
    ELSE IF IsInf(a) THEN a
    ELSE IF IsInf(b) THEN b
    ELSE Ratio(a[1] * b[2] + b[1] * a[2], a[2] * b[2])

FSub(a, b) == FAdd(a, FNeg(b))

FMul(a, b) ==
    IF IsNaN(a) \/ IsNaN(b) THEN NaN
    ELSE IF IsInf(a) \/ IsInf(b)
         THEN (IF a[1] = 0 \/ b[1] = 0 THEN NaN
               ELSE <<Sign(a[1]) * Sign(b[1]), 0>>)
    ELSE Ratio(a[1] * b[1], a[2] * b[2])

\* x / 0 is NaN for x = 0 and an infinity of x's sign otherwise
FDiv(a, b) ==
    IF IsNaN(a) \/ IsNaN(b) THEN NaN
    ELSE IF IsInf(a) /\ IsInf(b) THEN NaN
    ELSE IF IsInf(a) THEN (IF b[1] < 0 THEN FNeg(a) ELSE a)
    ELSE IF IsInf(b) THEN Num(0)
    ELSE IF b[1] = 0 THEN (IF a[1] = 0 THEN NaN ELSE <<Sign(a[1]), 0>>)
    ELSE Ratio(Sign(b[1]) * a[1] * b[2], a[2] * Abs(b[1]))

FApply(op, a, b) ==
    CASE op = "+" -> FAdd(a, b)
      [] op = "-" -> FSub(a, b)
      [] op = "*" -> FMul(a, b)
      [] op = "/" -> FDiv(a, b)

\* a < b on cells that are not NaN
FLess(a, b) ==
    IF a = b THEN FALSE
    ELSE IF a = NegInf \/ b = PosInf THEN TRUE
    ELSE IF a = PosInf \/ b = NegInf THEN FALSE
    ELSE a[1] * b[2] < b[1] * a[2]

(***************************************************************************)
(* pd.eval(safe_expr, local_dict={"df": df, "np": np}, engine="python").   *)
(* The expression alphabet is letters, digits, "_", blanks, + - * / ( ),   *)
(* and the [ ] ' that the token wrapping adds.                             *)
(***************************************************************************)
Lexeme(t, s, n) == [t |-> t, s |-> s, n |-> n]

ErrLexeme == Lexeme("err", <<>>, 0)

EndLexeme == Lexeme("end", <<>>, 0)

OpChars == {"+", "-", "*", "/", "(", ")", "[", "]"}

\* end (exclusive) of the run of characters of a class that starts at i
RECURSIVE RunEnd(_, _, _)
RunEnd(s, i, class) == IF At(s, i) \in class THEN RunEnd(s, i + 1, class) ELSE i

\* position of the next quote at or after i, 0 when the string never closes
RECURSIVE QuoteEnd(_, _)
QuoteEnd(s, i) ==
    IF i > Len(s) THEN 0 ELSE IF s[i] = "'" THEN i ELSE QuoteEnd(s, i + 1)

DigitValue(c) == CHOOSE k \in 0..9 : DigitSeq[k + 1] = c

RECURSIVE DecimalValue(_)
DecimalValue(w) ==
    IF w = <<>> THEN 0
    ELSE 10 * DecimalValue(SubSeq(w, 1, Len(w) - 1)) + DigitValue(w[Len(w)])

\* a decimal integer literal: digits only, no leading zero unless all zero
IsDecimalLiteral(w) ==
    /\ \A k \in 1..Len(w) : w[k] \in DigitChars
    /\ (w[1] = "0" => \A k \in 1..Len(w) : w[k] = "0")

\* the expression's lexemes; a lexical error ends the sequence with ErrLexeme
RECURSIVE LexFrom(_, _)
LexFrom(s, i) ==
    IF i > Len(s) THEN <<>>
    ELSE IF s[i] = " " THEN LexFrom(s, i + 1)
    ELSE IF s[i] \in UpperChars \cup LowerChars \cup {"_"}
         THEN LET e == RunEnd(s, i, WordChars)
              IN  <<Lexeme("name", SubSeq(s, i, e - 1), 0)>> \o LexFrom(s, e)
    ELSE IF s[i] \in DigitChars
         THEN LET e == RunEnd(s, i, WordChars)
                  w == SubSeq(s, i, e - 1)
              IN  IF IsDecimalLiteral(w)
                  THEN <<Lexeme("num", w, DecimalValue(w))>> \o LexFrom(s, e)
                  ELSE <<ErrLexeme>>
    ELSE IF s[i] = "'"
         THEN LET q == QuoteEnd(s, i + 1)
              IN  IF q = 0 THEN <<ErrLexeme>>
                  ELSE <<Lexeme("str", SubSeq(s, i + 1, q - 1), 0)>>
                         \o LexFrom(s, q + 1)
    ELSE IF s[i] \in OpChars
         THEN <<Lexeme("op", <<s[i]>>, 0)>> \o LexFrom(s, i + 1)
    ELSE <<ErrLexeme>>

Lex(s) == LexFrom(s, 1)

LexAt(L, p) == IF p \in 1..Len(L) THEN L[p] ELSE EndLexeme

IsOp(L, p, c) == LexAt(L, p).t = "op" /\ LexAt(L, p).s = <<c>>

\* values of subexpressions: a Series (one cell per row), a scalar, the
\* DataFrame df, the module np, a string constant
Val(k, x, s) == [k |-> k, x |-> x, s |-> s]

ErrVal == Val("err", <<>>, <<>>)

Numeric(v) == v.k \in {"series", "scalar"}

Cell(v, i) == IF v.k = "scalar" THEN v.x[1] ELSE v.x[i]

\* row-wise arithmetic with a scalar broadcast over the rows
BinOp(op, a, b) ==
    IF ~Numeric(a) \/ ~Numeric(b) THEN ErrVal
    ELSE IF a.k = "scalar" /\ b.k = "scalar"
         THEN Val("scalar", <<FApply(op, a.x[1], b.x[1])>>, <<>>)
    ELSE LET n == IF a.k = "series" THEN Len(a.x) ELSE Len(b.x)
         IN  Val("series", [i \in 1..n |-> FApply(op, Cell(a, i), Cell(b, i))],
                 <<>>)

Negate(a) ==
    IF Numeric(a) THEN Val(a.k, [i \in 1..Len(a.x) |-> FNeg(a.x[i])], <<>>)
    ELSE ErrVal

\* df['T']: KeyError unless T is a column
Subscript(t, base, index) ==
    IF base.k = "df" /\ index.k = "str" /\ index.s \in DOMAIN t
    THEN Val("series", t[index.s], <<>>)
    ELSE ErrVal

\* a bare name is looked up in local_dict; any other name is undefined
ResolveName(name) ==
    IF name = <<"d", "f">> THEN Val("df", <<>>, <<>>)
    ELSE IF name = <<"n", "p">> THEN Val("np", <<>>, <<>>)
    ELSE ErrVal

Parsed(v, p) == [ok |-> v.k # "err", v |-> v, p |-> p]

Fail == [ok |-> FALSE, v |-> ErrVal, p |-> 0]

RECURSIVE ParseExpr(_, _, _)
RECURSIVE ExprRest(_, _, _)
RECURSIVE ParseTerm(_, _, _)
RECURSIVE TermRest(_, _, _)
RECURSIVE ParseFactor(_, _, _)
RECURSIVE ParseAtom(_, _, _)
RECURSIVE PostfixRest(_, _, _)

\* expr := term { (+|-) term }
ParseExpr(t, L, p) ==
    LET a == ParseTerm(t, L, p)
    IN  IF a.ok THEN ExprRest(t, L, a) ELSE Fail

ExprRest(t, L, a) ==
    IF IsOp(L, a.p, "+") \/ IsOp(L, a.p, "-")
    THEN LET b == ParseTerm(t, L, a.p + 1)
             r == Parsed(BinOp(L[a.p].s[1], a.v, b.v), b.p)
         IN  IF b.ok /\ r.ok THEN ExprRest(t, L, r) ELSE Fail
    ELSE a

\* term := factor { (*|/) factor }
ParseTerm(t, L, p) ==
    LET a == ParseFactor(t, L, p)
    IN  IF a.ok THEN TermRest(t, L, a) ELSE Fail

TermRest(t, L, a) ==
    IF IsOp(L, a.p, "*") \/ IsOp(L, a.p, "/")
    THEN LET b == ParseFactor(t, L, a.p + 1)
             r == Parsed(BinOp(L[a.p].s[1], a.v, b.v), b.p)
         IN  IF b.ok /\ r.ok THEN TermRest(t, L, r) ELSE Fail
    ELSE a

\* factor := (+|-) factor | atom { '[' expr ']' }
ParseFactor(t, L, p) ==
    IF IsOp(L, p, "-")
    THEN LET a == ParseFactor(t, L, p + 1)
         IN  IF a.ok THEN Parsed(Negate(a.v), a.p) ELSE Fail
    ELSE IF IsOp(L, p, "+")
    THEN LET a == ParseFactor(t, L, p + 1)
         IN  IF a.ok /\ Numeric(a.v) THEN a ELSE Fail
    ELSE LET a == ParseAtom(t, L, p)
         IN  IF a.ok THEN PostfixRest(t, L, a) ELSE Fail

\* atom := NAME | NUMBER | STRING | '(' expr ')'
ParseAtom(t, L, p) ==
    LET x == LexAt(L, p)
    IN  IF x.t = "name" THEN Parsed(ResolveName(x.s), p + 1)
        ELSE IF x.t = "num" THEN Parsed(Val("scalar", <<Num(x.n)>>, <<>>), p + 1)
        ELSE IF x.t = "str" THEN Parsed(Val("str", <<>>, x.s), p + 1)
        ELSE IF IsOp(L, p, "(")
        THEN LET a == ParseExpr(t, L, p + 1)
             IN  IF a.ok /\ IsOp(L, a.p, ")") THEN Parsed(a.v, a.p + 1) ELSE Fail
        ELSE Fail

PostfixRest(t, L, a) ==
    IF IsOp(L, a.p, "[")
    THEN LET i == ParseExpr(t, L, a.p + 1)
             r == Parsed(Subscript(t, a.v, i.v), i.p + 1)
         IN  IF i.ok /\ IsOp(L, i.p, "]") /\ r.ok THEN PostfixRest(t, L, r)
             ELSE Fail
    ELSE a

\* pd.eval on table t: the value, or ErrVal when the evaluation raises (syntax
\* error, undefined name, KeyError, a result that is no column of numbers)
pd_eval(t, safe_expr) ==
    LET L == Lex(safe_expr)
    IN  IF L = <<>> \/ L[Len(L)].t = "err" THEN ErrVal
        ELSE LET r == ParseExpr(t, L, 1)
             IN  IF r.ok /\ r.p = Len(L) + 1 /\ Numeric(r.v) THEN r.v ELSE ErrVal

(***************************************************************************)
(* The wide table of compute_hsi.py: column name -> cells, one per row.    *)
(***************************************************************************)
NRows(t) == Len(t[CHOOSE c \in DOMAIN t : TRUE])

\* df[name] = x
SetCol(t, name, x) ==
    [c \in DOMAIN t \cup {name} |-> IF c = name THEN x ELSE t[c]]

AllNaN(n) == [i \in 1..n |-> NaN]

\* the result of pd.eval as a column: a scalar is broadcast over the rows
AsColumn(v, n) == IF v.k = "scalar" THEN [i \in 1..n |-> v.x[1]] ELSE v.x

\* pd.to_numeric(df.get(expr, np.nan), errors="coerce"): the column's cells,
\* which are float64 already, or NaN for a column the table lacks
to_numeric_get(t, expr) ==
    IF expr \in DOMAIN t THEN t[expr] ELSE AllNaN(NRows(t))

\* .round(4)
Decimals == 4

RECURSIVE Pow10(_)
Pow10(k) == IF k = 0 THEN 1 ELSE 10 * Pow10(k - 1)

\* n/d (n >= 0, d > 0) rounded to the nearest integer, halves to even
RoundHalfEven(n, d) ==
    LET q == n \div d
        rem == n % d
    IN  IF 2 * rem < d THEN q
        ELSE IF 2 * rem > d THEN q + 1
        ELSE IF q % 2 = 0 THEN q ELSE q + 1

Round4(n, d) == Ratio(RoundHalfEven(Pow10(Decimals) * n, d), Pow10(Decimals))

\* Series.rank(pct=True) at row r: the average rank of the cell among the
\* cells that are not NaN, divided by their count; NaN keeps NaN
RankPct(x, r) ==
    IF IsNaN(x[r]) THEN NaN
    ELSE LET present == {j \in 1..Len(x) : ~IsNaN(x[j])}
             less == Cardinality({j \in present : FLess(x[j], x[r])})
             same == Cardinality({j \in present : x[j] = x[r]})
         IN  Round4(2 * less + same + 1, 2 * Cardinality(present))

rank_pct_round(x) == [r \in 1..Len(x) |-> RankPct(x, r)]

Chars_SPL == <<"S", "P", "L", "_">>

Chars_RPL == <<"R", "P", "L", "_">>

\* skip = {"E_TOTPOP", "TOT_POP", "TOTPOP"}
skip == {<<"E", "_", "T", "O", "T", "P", "O", "P">>,
         <<"T", "O", "T", "_", "P", "O", "P">>,
         <<"T", "O", "T", "P", "O", "P">>}

\* _add_percentiles(df, aliases), one alias after the other
RECURSIVE add_percentiles(_, _)
add_percentiles(t, aliases) ==
    IF aliases = <<>> THEN t
    ELSE LET alias == Head(aliases)
             t1 == SetCol(t, Chars_SPL \o alias, t[alias])
             t2 == SetCol(t1, Chars_RPL \o alias,
                          rank_pct_round(t1[Chars_SPL \o alias]))
         IN  IF str_upper(alias) \in skip
             THEN add_percentiles(t, Tail(aliases))
             ELSE add_percentiles(t2, Tail(aliases))

(***************************************************************************)
(* Inputs of SpecHsi: configurations and wide tables.                      *)
(***************************************************************************)
MaxRows == 3

T1 == <<"D", "P", "1", "_", "0", "0", "0", "1", "C">>

T2 == <<"D", "P", "1", "_", "0", "0", "0", "2", "C">>

\* a code no table holds
T3 == <<"D", "P", "1", "_", "0", "0", "0", "3", "C">>

\* an alias that has the shape of a code
T9 == <<"D", "P", "1", "_", "0", "0", "0", "9", "C">>

AliasX == <<"X">>

AliasY == <<"Y">>

AliasZ == <<"Z">>

AliasQ == <<"Q">>

AliasEP_MIN == <<"E", "P", "_", "M", "I", "N">>

AliasEP_POV == <<"E", "P", "_", "P", "O", "V">>

AliasE_TOTPOP == <<"E", "_", "T", "O", "T", "P", "O", "P">>

AliasTot_Pop == <<"T", "o", "t", "_", "P", "o", "p">>

AliasGONE == <<"G", "O", "N", "E">>

AliasBAD == <<"B", "A", "D">>

\* expressions as trees, rendered into the text of the configuration
Nil == [op |-> "nil"]

Var(name) == [op |-> "var", name |-> name, n |-> 0, l |-> Nil, r |-> Nil]

Lit(n) == [op |-> "num", name |-> <<>>, n |-> n, l |-> Nil, r |-> Nil]

Bin(op, l, r) == [op |-> op, name |-> <<>>, n |-> 0, l |-> l, r |-> r]

Par(e) == [op |-> "par", name |-> <<>>, n |-> 0, l |-> e, r |-> Nil]

RECURSIVE Digits(_)
Digits(n) ==
    IF n < 10 THEN <<DigitSeq[n + 1]>>
    ELSE Digits(n \div 10) \o <<DigitSeq[(n % 10) + 1]>>

RECURSIVE Render(_)
Render(e) ==
    IF e.op = "var" THEN e.name
    ELSE IF e.op = "num" THEN Digits(e.n)
    ELSE IF e.op = "par" THEN <<"(">> \o Render(e.l) \o <<")">>
    ELSE Render(e.l) \o <<" ", e.op, " ">> \o Render(e.r)

Row(alias, e) == [alias |-> alias, ast |-> e]

Configs ==
    { <<Row(AliasX, Bin("+", Var(T1), Lit(1))),
        Row(AliasY, Bin("*", Var(AliasX), Lit(2)))>>,
      <<Row(AliasX, Bin("+", Var(AliasY), Lit(1))),
        Row(AliasY, Bin("*", Var(AliasX), Lit(2)))>>,
      <<Row(AliasEP_MIN, Bin("/", Par(Bin("-", Var(T1), Var(T2))), Var(T1))),
        Row(AliasQ, Bin("/", Var(T1), Var(T2)))>>,
      <<Row(AliasEP_POV, Var(T1)),
        Row(AliasE_TOTPOP, Var(T2)),
        Row(T2, Var(T2)),
        Row(AliasGONE, Var(T3))>>,
      <<Row(AliasTot_Pop, Var(T1)),
        Row(AliasBAD, Bin("+", Var(T1), Var(T3))),
        Row(AliasZ, Bin("*", Par(Bin("-", Var(T1), Var(T2))), Lit(100)))>>,
      <<Row(T9, Bin("+", Var(T1), Lit(1))),
        Row(AliasZ, Bin("*", Var(T9), Lit(2)))>> }

\* a row of csv.DictReader: a line with fewer than three cells leaves the
\* missing keys at None
CsvRow(a, d, v) == [alias |-> a, dataset |-> d, variable |-> v, cells |-> 3]

ShortRow(a, d) == [alias |-> a, dataset |-> d, variable |-> <<>>, cells |-> 2]

VariableIsNone(row) == row.cells < 3

Chars_dpgu == <<"d", "p", "g", "u">>

\* d[k] = v on a dict kept in insertion order: a key already present keeps
\* its place and takes the new value
AliasPut(am, a, e) ==
    IF \E i \in DOMAIN am : am[i].alias = a
    THEN [i \in DOMAIN am |->
            IF am[i].alias = a THEN [alias |-> a, expr |-> e] ELSE am[i]]
    ELSE Append(am, [alias |-> a, expr |-> e])

\* the dict comprehension over the first k rows
RECURSIVE AliasFold(_, _)
AliasFold(rows, k) ==
    IF k = 0 THEN <<>>
    ELSE AliasPut(AliasFold(rows, k - 1), str_strip(rows[k].alias),
                  str_strip(rows[k].variable))

\* _load_alias_map: alias -> expression text
load_alias_map(rows) == AliasFold(rows, Len(rows))

\* None.strip() raises
load_alias_map_raises(rows) == \E i \in DOMAIN rows : VariableIsNone(rows[i])

\* the alias map of a configuration whose expressions are given as trees
AliasMapOf(cfg) ==
    load_alias_map([i \in 1..Len(cfg) |->
                      CsvRow(cfg[i].alias, Chars_dpgu, Render(cfg[i].ast))])

\* rows of the wide table: the cells of T1 and T2
RawRows ==
    << <<Num(100), Num(80)>>, <<Num(50), Num(50)>>, <<Num(0), Num(0)>>,
       <<Num(10), Num(0)>>, <<Num(20), NaN>>, <<NaN, Num(20)>> >>

WideTable(rows) ==
    (T1 :> [i \in 1..Len(rows) |-> rows[i][1]])
      @@ (T2 :> [i \in 1..Len(rows) |-> rows[i][2]])

\* the tables of up to MaxRows rows; the evaluator works row by row and the
\* ranks do not depend on the order of the rows, so one order of each
\* choice of rows is enough
RowChoices ==
    UNION {{k \in [1..n -> 1..Len(RawRows)] :
              \A i \in 1..(n - 1) : k[i] <= k[i + 1]} : n \in 1..MaxRows}

WideTables == {WideTable([i \in DOMAIN k |-> RawRows[k[i]]]) : k \in RowChoices}

(***************************************************************************)
(* _evaluate_aliases(df, alias_map): one action per turn of its loop.      *)
(***************************************************************************)
alias == alias_map[ai].alias

expr == alias_map[ai].expr

InLoop == hpc = "loop" /\ ai <= Len(alias_map)

InitHsi ==
    /\ alias_map \in {AliasMapOf(cfg) : cfg \in Configs}
    /\ df \in WideTables
    /\ ai = 1
    /\ hpc = "loop"
    /\ dataset_map = <<>>
    /\ cache = [k \in CacheKeys |-> NoFile]
    /\ pc = "idle"
    /\ idx = 1
    /\ df_ds = NoFile
    /\ exc = NoExc
    /\ frames = <<>>
    /\ df_raw = NoFile
    /\ enriched = FALSE
    /\ outfile = NoFile
    /\ requests = <<>>
    /\ exit = NoExc
    /\ ExtIdle

\* the alias is a column already: continue
HsiSkipExisting ==
    /\ InLoop
    /\ alias \in DOMAIN df
    /\ ai' = ai + 1
    /\ UNCHANGED <<alias_map, df, hpc>>
    /\ UNCHANGED driverVars
    /\ UNCHANGED extVars

\* the expression is one token: copy the column, add SPL_ and RPL_
HsiTrivial ==
    /\ InLoop
    /\ alias \notin DOMAIN df
    /\ TOKEN_RE_fullmatch(expr)
    /\ df' = add_percentiles(SetCol(df, alias, to_numeric_get(df, expr)),
                             <<alias>>)
    /\ ai' = ai + 1
    /\ UNCHANGED <<alias_map, hpc>>
    /\ UNCHANGED driverVars
    /\ UNCHANGED extVars

\* the wrapped expression evaluates: the column, then SPL_ and RPL_
HsiCompound ==
    /\ InLoop
    /\ alias \notin DOMAIN df
    /\ ~TOKEN_RE_fullmatch(expr)
    /\ pd_eval(df, SafeExpr(expr)) # ErrVal
    /\ df' = add_percentiles(
                 SetCol(df, alias,
                        AsColumn(pd_eval(df, SafeExpr(expr)), NRows(df))),
                 <<alias>>)
    /\ ai' = ai + 1
    /\ UNCHANGED <<alias_map, hpc>>
    /\ UNCHANGED driverVars
    /\ UNCHANGED extVars

\* the evaluation raises: except Exception, df[alias] = np.nan
HsiCompoundRaises ==
    /\ InLoop
    /\ alias \notin DOMAIN df
    /\ ~TOKEN_RE_fullmatch(expr)
    /\ pd_eval(df, SafeExpr(expr)) = ErrVal
    /\ df' = SetCol(df, alias, AllNaN(NRows(df)))
    /\ ai' = ai + 1
    /\ UNCHANGED <<alias_map, hpc>>
    /\ UNCHANGED driverVars
    /\ UNCHANGED extVars

\* return df
HsiReturn ==
    /\ hpc = "loop"
    /\ ai > Len(alias_map)
    /\ hpc' = "returned"
    /\ UNCHANGED <<alias_map, df, ai>>
    /\ UNCHANGED driverVars
    /\ UNCHANGED extVars

NextHsi ==
    \/ HsiSkipExisting
    \/ HsiTrivial
    \/ HsiCompound
    \/ HsiCompoundRaises
    \/ HsiReturn

SpecHsi == InitHsi /\ [][NextHsi]_vars

(***************************************************************************)
(* Claims about the driver, checked under Spec.                            *)
(***************************************************************************)
MergeReached == pc \in {"merge", "hsi", "write", "done"}

\* C1: a dataset table is in the list of frames only if every code requested
\* for that dataset is one of its columns, whether it came from the live
\* download or from the cache file; when the merge step is reached, every
\* dataset of the configuration has such a frame.
C1_FramesHoldEveryRequestedCode ==
    /\ Len(frames) <= Len(dataset_map)
    /\ \A i \in 1..Len(frames) :
         /\ frames[i].exists
         /\ Range(dataset_map[i].codes) \subseteq frames[i].cols
    /\ MergeReached => Len(frames) = Len(dataset_map)

\* the second dataset's live table was incomplete, its cached table passed
\* the check and is about to join the frame of the first dataset
C1_Witness ==
    /\ pc = "append"
    /\ exc.exc = "RuntimeError"
    /\ Len(frames) = 1
    /\ Len(codes) = 2
    /\ Len(dataset_map[1].codes) = 1

\* C2: when the live acquisition of a dataset failed (or was incomplete) and
\* no cache file exists for its key, the next step is the fatal exit naming
\* that dataset; once the run has so exited, no later dataset was requested,
\* no frame of that dataset exists, nothing was merged or enriched and no
\* output file was written.
C2_NoCacheAbortsTheRun ==
    /\ [](exit.exc = "SystemExit" =>
            /\ pc = "exit"
            /\ exit = FatalNoCache(slug)
            /\ ~cache[cache_file(slug)].exists
            /\ Len(frames) = idx - 1
            /\ \A j \in (idx + 1)..Len(dataset_map) :
                 dataset_map[j].slug \notin Range(requests)
            /\ ~df_raw.exists
            /\ ~enriched
            /\ ~outfile.exists)
    /\ [][(pc = "except" /\ ~cache[cache_file(slug)].exists) =>
            (pc' = "exit" /\ exit' = FatalNoCache(slug)
             /\ UNCHANGED <<frames, df_raw, enriched, outfile, requests, cache>>)]_vars
    /\ [][pc = "exit" => UNCHANGED vars]_vars

\* the first dataset was fetched, the second failed without a cache file
C2_Witness ==
    /\ pc = "exit"
    /\ exit.exc = "SystemExit"
    /\ idx = 2
    /\ Len(frames) = 1
    /\ Len(dataset_map) = 2
    /\ exc.exc \in {"HTTPError", "RuntimeError"}

\* C3: a step changes the cache directory only by writing the snapshot of
\* the current dataset's key, with the table of a live acquisition that
\* raised nothing and holds every requested code; every other step, so every
\* step of a failure path, leaves every cache file as it was.
C3_CacheWrittenOnlyAfterCompleteLive ==
    [][cache' # cache =>
         /\ pc = "persist"
         /\ exc = NoExc
         /\ requests # <<>>
         /\ requests[Len(requests)] = slug
         /\ df_ds.exists
         /\ Range(codes) \subseteq df_ds.cols
         /\ cache' = [cache EXCEPT ![cache_file(slug)] = df_ds]]_vars

\* a failure path over an existing cache file, after an earlier dataset's
\* snapshot was written
C3_Witness ==
    /\ pc = "assert_cache"
    /\ exc.exc = "RuntimeError"
    /\ cache[cache_file(slug)].exists
    /\ idx = 2
    /\ dataset_map[1].slug \in Range(requests)
    /\ cache[cache_file(dataset_map[1].slug)] = frames[1]

\* C4: when the live table lacks a requested field and the cached snapshot
\* lacks it too, the run aborts with a message naming the dataset and the
\* missing field.
C4_AbortNamesDatasetAndField ==
    (pc = "exit" /\ exc.exc = "RuntimeError" /\ exit.exc = "RuntimeError") =>
        /\ slug \in Range(exit.slugs)
        /\ MissingVars(df_ds, Range(codes)) \subseteq Range(exit.vars)

(***************************************************************************)
(* Claims about the formula evaluator and the scoring engine, checked      *)
(* under SpecHsi.                                                          *)
(***************************************************************************)
\* the configuration the alias map was loaded from
Config == CHOOSE cfg \in Configs : AliasMapOf(cfg) = alias_map

\* columns of the wide table before any alias is evaluated
RawNames == {T1, T2}

Undefined == [def |-> FALSE, v |-> NaN]

\* the arithmetic value of tree e, an expression of alias i of cfg, at a row
\* of table t: a raw column's cell, the value of an alias defined earlier in
\* the configuration, and + - * / on those.  It is undefined for a name
\* that is neither, and where a divisor is zero.
RECURSIVE RefCell(_, _, _, _, _)
RefCell(cfg, i, e, t, row) ==
    IF e.op = "num" THEN [def |-> TRUE, v |-> Num(e.n)]
    ELSE IF e.op = "var"
    THEN IF e.name \in RawNames THEN [def |-> TRUE, v |-> t[e.name][row]]
         ELSE IF \E j \in 1..(i - 1) : cfg[j].alias = e.name
         THEN LET j == CHOOSE j \in 1..(i - 1) : cfg[j].alias = e.name
              IN  RefCell(cfg, j, cfg[j].ast, t, row)
         ELSE Undefined
    ELSE IF e.op = "par" THEN RefCell(cfg, i, e.l, t, row)
    ELSE LET a == RefCell(cfg, i, e.l, t, row)
             b == RefCell(cfg, i, e.r, t, row)
         IN  IF ~a.def \/ ~b.def THEN Undefined
             ELSE IF e.op = "/" /\ b.v = Num(0) THEN Undefined
             ELSE [def |-> TRUE, v |-> FApply(e.op, a.v, b.v)]

\* the names in a tree
RECURSIVE Leaves(_)
Leaves(e) ==
    IF e.op = "var" THEN {e.name}
    ELSE IF e.op = "num" THEN {}
    ELSE IF e.op = "par" THEN Leaves(e.l)
    ELSE Leaves(e.l) \cup Leaves(e.r)

IsCompound(e) == e.op \notin {"var", "num"}

\* some division of the tree has a divisor that is zero at the row
RECURSIVE DividesByZero(_, _, _, _, _)
DividesByZero(cfg, i, e, t, row) ==
    IF e.op \in {"var", "num"} THEN FALSE
    ELSE IF e.op = "par" THEN DividesByZero(cfg, i, e.l, t, row)
    ELSE \/ DividesByZero(cfg, i, e.l, t, row)
         \/ DividesByZero(cfg, i, e.r, t, row)
         \/ /\ e.op = "/"
            /\ RefCell(cfg, i, e.r, t, row).def
            /\ RefCell(cfg, i, e.r, t, row).v = Num(0)

Returned == hpc = "returned"

AliasRows == 1..Len(alias_map)

\* the alias of row i refers to an alias that an earlier row defines
RefersToEarlierAlias(cfg, i) ==
    \E n \in Leaves(cfg[i].ast) \ RawNames :
        \E j \in 1..(i - 1) : cfg[j].alias = n

\* C5: an alias whose expression refers to an alias defined earlier in the
\* configuration gets, on every row, the arithmetic value of its expression
\* over the earlier alias's value (Y = (A + 1) * 2 for X = A + 1, Y = X * 2).
C5_LaterAliasComputedFromEarlier ==
    Returned =>
        \A i \in AliasRows :
            (RefersToEarlierAlias(Config, i) /\ Config[i].alias \notin RawNames) =>
                \A row \in 1..NRows(df) :
                    LET ref == RefCell(Config, i, Config[i].ast, df, row)
                    IN  ref.def => df[Config[i].alias][row] = ref.v

\* the aliases whose names occur in the expression of alias i
DependsOn(am, i) ==
    {j \in 1..Len(am) :
        /\ am[j].alias \notin RawNames
        /\ \E k \in 1..Len(Lex(am[i].expr)) :
             /\ Lex(am[i].expr)[k].t = "name"
             /\ Lex(am[i].expr)[k].s = am[j].alias}

RECURSIVE ReachableIn(_, _, _)
ReachableIn(am, S, n) ==
    IF n = 0 THEN S
    ELSE ReachableIn(am, S \cup UNION {DependsOn(am, j) : j \in S}, n - 1)

Cyclic(am) ==
    \E i \in 1..Len(am) : i \in ReachableIn(am, DependsOn(am, i), Len(am))

\* C6: with a circular dependency among the aliases, the evaluator fails
\* with a cyclic-definition error: it does not return a table.
C6_CycleIsRejected == Cyclic(alias_map) => ~Returned

\* C7: a compound expression over + - * / and parentheses whose names are
\* all columns of the wide table gets, on every row, the arithmetic value of
\* the expression, whatever its shape, a name occurring twice included.
C7_CompoundIsRowwiseValue ==
    Returned =>
        \A i \in AliasRows :
            (/\ IsCompound(Config[i].ast)
             /\ Leaves(Config[i].ast) \subseteq RawNames
             /\ Config[i].alias \notin RawNames) =>
                \A row \in 1..NRows(df) :
                    LET ref == RefCell(Config, i, Config[i].ast, df, row)
                    IN  ref.def => df[Config[i].alias][row] = ref.v

\* C8: where a divisor of a compound expression is zero at a row, the alias
\* is missing at that row, whatever the numerator, and so is its rank.
C8_DivisionByZeroIsMissing ==
    Returned =>
        \A i \in AliasRows :
            (/\ IsCompound(Config[i].ast)
             /\ Leaves(Config[i].ast) \subseteq RawNames
             /\ Config[i].alias \notin RawNames) =>
                \A row \in 1..NRows(df) :
                    DividesByZero(Config, i, Config[i].ast, df, row) =>
                        /\ IsNaN(df[Config[i].alias][row])
                        /\ (Chars_RPL \o Config[i].alias) \in DOMAIN df =>
                             IsNaN(df[Chars_RPL \o Config[i].alias][row])

Present(x) == {r \in 1..Len(x) : ~IsNaN(x[r])}

\* C9: a score column with n > 1 non-missing, distinct values has the ranks
\* 0, 1/(n-1), ..., 1 (rounded to 4 decimals) on its non-missing rows, and
\* a missing rank where the score is missing.
C9_RanksAreZeroToOne ==
    \A i \in AliasRows :
        LET spl == Chars_SPL \o alias_map[i].alias
            rpl == Chars_RPL \o alias_map[i].alias
        IN  (spl \in DOMAIN df /\ rpl \in DOMAIN df) =>
              LET n == Cardinality(Present(df[spl]))
              IN  (/\ n > 1
                   /\ Cardinality({df[spl][r] : r \in Present(df[spl])}) = n) =>
                      /\ {df[rpl][r] : r \in Present(df[spl])}
                           = {Round4(k, n - 1) : k \in 0..(n - 1)}
                      /\ \A r \in 1..NRows(df) :
                           r \notin Present(df[spl]) => IsNaN(df[rpl][r])

\* C10: when the evaluator has returned, every alias whose upper-cased name
\* is no population denominator is a column of the table, together with its
\* SPL_ and RPL_ columns.
C10_EveryAliasHasScoreAndRank ==
    Returned =>
        \A i \in AliasRows :
            str_upper(alias_map[i].alias) \notin skip =>
                /\ alias_map[i].alias \in DOMAIN df
                /\ (Chars_SPL \o alias_map[i].alias) \in DOMAIN df
                /\ (Chars_RPL \o alias_map[i].alias) \in DOMAIN df

(***************************************************************************)
(* The readers of variables.csv: group_variable_codes_by_dataset           *)
(* (fetch.py) and _load_alias_map (compute_hsi.py).  The file has the      *)
(* three headers alias, dataset, variable.                                 *)
(***************************************************************************)
MaxCfgRows == 3

Chars_dhcgu == <<"d", "h", "c", "g", "u">>

\* the same dataset, written with blanks around it
Chars_dpgu_padded == <<" ">> \o Chars_dpgu \o <<" ">>

\* the lines a configuration is made of
CfgRowPool ==
    { CsvRow(AliasE_TOTPOP, Chars_dpgu, T1),
      CsvRow(AliasEP_MIN, Chars_dpgu,
             Render(Bin("/", Par(Bin("-", Var(T2), Var(T1))), Var(T2)))),
      CsvRow(AliasEP_POV, Chars_dhcgu, Render(Bin("+", Var(T1), Var(T3)))),
      CsvRow(AliasEP_POV, Chars_dpgu, T2),
      CsvRow(AliasX, Chars_dpgu_padded, Render(Bin("*", Var(T3), Lit(100)))),
      CsvRow(AliasQ, Chars_dhcgu, Render(Lit(100))),
      ShortRow(AliasZ, Chars_dhcgu) }

CfgTables == UNION {[1..n -> CfgRowPool] : n \in 0..MaxCfgRows}

\* _extract_codes: VAR_RE is the pattern of TOKEN_RE
extract_codes(e) == TOKEN_RE_findall(e)

RECURSIVE dedupe_preserve_order(_)
dedupe_preserve_order(seq) ==
    IF seq = <<>> THEN <<>>
    ELSE LET unique == dedupe_preserve_order(SubSeq(seq, 1, Len(seq) - 1))
             item == seq[Len(seq)]
         IN  IF item \in Range(unique) THEN unique ELSE Append(unique, item)

HasKey(d, k) == \E i \in DOMAIN d : d[i].slug = k

KeyIndex(d, k) == CHOOSE i \in DOMAIN d : d[i].slug = k

\* d.setdefault(k, empty), on a dict kept in insertion order
SetDefault(d, k, empty) ==
    IF HasKey(d, k) THEN d ELSE Append(d, [slug |-> k, codes |-> empty])

\* lines 145-148 over the first k codes of the expression: the bucket and
\* the tracker of one dataset
RECURSIVE AddCodes(_, _, _, _)
AddCodes(bucket, already, codes_in_expr, k) ==
    IF k = 0 THEN [bucket |-> bucket, already |-> already]
    ELSE LET b == AddCodes(bucket, already, codes_in_expr, k - 1)
             code == codes_in_expr[k]
         IN  IF code \notin b.already
             THEN [bucket |-> Append(b.bucket, code),
                   already |-> b.already \cup {code}]
             ELSE b

\* main() and _evaluate_aliases are not running
BaseIdle ==
    /\ alias_map = <<>>
    /\ df = <<>>
    /\ ai = 0
    /\ hpc = "idle"
    /\ dataset_map = <<>>
    /\ cache = [k \in CacheKeys |-> NoFile]
    /\ pc = "idle"
    /\ idx = 1
    /\ df_ds = NoFile
    /\ exc = NoExc
    /\ frames = <<>>
    /\ df_raw = NoFile
    /\ enriched = FALSE
    /\ outfile = NoFile
    /\ requests = <<>>
    /\ exit = NoExc

InitCfg ==
    /\ cfg_rows \in CfgTables
    /\ gpc \in {"group", "load"}
    /\ gi = 1
    /\ buckets = <<>>
    /\ seen = <<>>
    /\ loaded = <<>>
    /\ BaseIdle
    /\ MergeIdle
    /\ FetchIdle

\* a grouper whose duplicate tracker is shared by all datasets
GroupRowGlobalSeen ==
    /\ gpc = "group"
    /\ gi <= Len(cfg_rows)
    /\ ~VariableIsNone(cfg_rows[gi])
    /\ LET dataset == str_strip(cfg_rows[gi].dataset)
           codes_in_expr == extract_codes(cfg_rows[gi].variable)
           b == SetDefault(buckets, dataset, <<>>)
           a == SetDefault(seen, dataset, {})
           i == KeyIndex(b, dataset)
           r == AddCodes(b[i].codes, UNION {a[j].codes : j \in DOMAIN a},
                         codes_in_expr, Len(codes_in_expr))
       IN  /\ buckets' = [b EXCEPT ![i].codes = r.bucket]
           /\ seen' = [a EXCEPT ![i].codes = r.already]
    /\ gi' = gi + 1
    /\ UNCHANGED <<cfg_rows, gpc, loaded>>
    /\ UNCHANGED <<driverVars, hsiVars, mergeVars, fetchVars>>

\* one turn of `for row in reader`
GroupRow ==
    /\ gpc = "group"
    /\ gi <= Len(cfg_rows)
    /\ ~VariableIsNone(cfg_rows[gi])
    /\ LET dataset == str_strip(cfg_rows[gi].dataset)
           codes_in_expr == extract_codes(cfg_rows[gi].variable)
           b == SetDefault(buckets, dataset, <<>>)
           a == SetDefault(seen, dataset, {})
           i == KeyIndex(b, dataset)
           r == AddCodes(b[i].codes, a[i].codes, codes_in_expr,
                         Len(codes_in_expr))
       IN  /\ buckets' = [b EXCEPT ![i].codes = r.bucket]
           /\ seen' = [a EXCEPT ![i].codes = r.already]
    /\ gi' = gi + 1
    /\ UNCHANGED <<cfg_rows, gpc, loaded>>
    /\ UNCHANGED <<driverVars, hsiVars, mergeVars, fetchVars>>

\* a line with no variable cell: VAR_RE.findall(None) raises TypeError
GroupRowRaises ==
    /\ gpc = "group"
    /\ gi <= Len(cfg_rows)
    /\ VariableIsNone(cfg_rows[gi])
    /\ gpc' = "raised"
    /\ UNCHANGED <<cfg_rows, gi, buckets, seen, loaded>>
    /\ UNCHANGED <<driverVars, hsiVars, mergeVars, fetchVars>>

\* the final pass and the return
GroupReturn ==
    /\ gpc = "group"
    /\ gi > Len(cfg_rows)
    /\ buckets' = [j \in DOMAIN buckets |->
                     [slug |-> buckets[j].slug,
                      codes |-> dedupe_preserve_order(buckets[j].codes)]]
    /\ gpc' = "grouped"
    /\ UNCHANGED <<cfg_rows, gi, seen, loaded>>
    /\ UNCHANGED <<driverVars, hsiVars, mergeVars, fetchVars>>

\* hsi() reads the file again, after main() or called on its own
LoadAliasMap ==
    /\ gpc \in {"grouped", "load"}
    /\ ~load_alias_map_raises(cfg_rows)
    /\ loaded' = load_alias_map(cfg_rows)
    /\ gpc' = "loaded"
    /\ UNCHANGED <<cfg_rows, gi, buckets, seen>>
    /\ UNCHANGED <<driverVars, hsiVars, mergeVars, fetchVars>>

LoadAliasMapRaises ==
    /\ gpc \in {"grouped", "load"}
    /\ load_alias_map_raises(cfg_rows)
    /\ gpc' = "raised"
    /\ UNCHANGED <<cfg_rows, gi, buckets, seen, loaded>>
    /\ UNCHANGED <<driverVars, hsiVars, mergeVars, fetchVars>>

NextCfg ==
    \/ GroupRow
    \/ GroupRowRaises
    \/ GroupReturn
    \/ LoadAliasMap
    \/ LoadAliasMapRaises

SpecCfg == InitCfg /\ [][NextCfg]_vars

(***************************************************************************)
(* Claims about the readers of variables.csv, checked under SpecCfg.       *)
(***************************************************************************)
\* two rows give one alias different datasets or different expressions
ConflictingAlias(rows) ==
    \E i, j \in DOMAIN rows :
        /\ i < j
        /\ str_strip(rows[i].alias) = str_strip(rows[j].alias)
        /\ \/ str_strip(rows[i].dataset) # str_strip(rows[j].dataset)
           \/ rows[i].cells # rows[j].cells
           \/ str_strip(rows[i].variable) # str_strip(rows[j].variable)

\* C11: loading the configuration fails when one alias appears in two rows
\* with conflicting dataset or expression: no reader returns a result for
\* such a file.
C11_ConflictingAliasIsRejected ==
    gpc \in {"grouped", "loaded"} => ~ConflictingAlias(cfg_rows)

\* the tokens matched in the expressions of the first k rows that belong to
\* dataset d, in order of appearance
RECURSIVE TokensOf(_, _, _)
TokensOf(rows, d, k) ==
    IF k = 0 THEN <<>>
    ELSE TokensOf(rows, d, k - 1)
           \o (IF str_strip(rows[k].dataset) = d
               THEN TOKEN_RE_findall(rows[k].variable) ELSE <<>>)

FirstPos(seq, x) ==
    CHOOSE i \in DOMAIN seq : seq[i] = x /\ \A j \in 1..(i - 1) : seq[j] # x

\* C13: when group_variable_codes_by_dataset returns, there is one bucket
\* per dataset of the rows and no other; each bucket holds every token
\* matched in an expression of its dataset's rows exactly once and no other
\* token, ordered by first appearance within that dataset.
C13_BucketsHoldEachTokenOnceInFirstSeenOrder ==
    gpc = "grouped" =>
        /\ {buckets[j].slug : j \in DOMAIN buckets}
             = {str_strip(cfg_rows[i].dataset) : i \in DOMAIN cfg_rows}
        /\ \A j, k \in DOMAIN buckets :
               buckets[j].slug = buckets[k].slug => j = k
        /\ \A j \in DOMAIN buckets :
               LET all == TokensOf(cfg_rows, buckets[j].slug, Len(cfg_rows))
                   list == buckets[j].codes
               IN  /\ Range(list) = Range(all)
                   /\ \A m, n \in DOMAIN list : list[m] = list[n] => m = n
                   /\ \A m, n \in DOMAIN list :
                          m < n => FirstPos(all, list[m]) < FirstPos(all, list[n])

\* the grouper returned two buckets that share a token, one of them fed by
\* an expression that repeats a token
C13_Witness ==
    /\ gpc = "grouped"
    /\ \E j, k \in DOMAIN buckets :
           /\ j # k
           /\ Range(buckets[j].codes) \cap Range(buckets[k].codes) # {}
           /\ Len(TokensOf(cfg_rows, buckets[j].slug, Len(cfg_rows)))
                > Len(buckets[j].codes)
           /\ Len(buckets[j].codes) > 1

(***************************************************************************)
(* Tables with rows.  A frame is its column index and its rows; a cell is  *)
(* a str (object), an int64 or a float64 value, NaN being a float.         *)
(***************************************************************************)
StrCell(s) == [t |-> "str", v |-> s]

IntCell(n) == [t |-> "int", v |-> <<n, 1>>]

FltCell(x) == [t |-> "float", v |-> x]

NaNCell == FltCell(NaN)

Frame(cols, rows) == [cols |-> cols, rows |-> rows]

\* geokeys_for("place"), as the list it is
GeoKeyList == <<"state", "place">>

ColIndex(t, c) == CHOOSE i \in DOMAIN t.cols : t.cols[i] = c

ColumnAt(t, c) == [r \in DOMAIN t.rows |-> t.rows[r][c]]

Column(t, c) == ColumnAt(t, ColIndex(t, c))

\* dtype of a column: NaN leaves a column of strings an object column and
\* makes a column of numbers float64
Dtype(x) ==
    IF \E r \in DOMAIN x : x[r].t = "str" THEN "object"
    ELSE IF \A r \in DOMAIN x : x[r].t = "int" THEN "int64"
    ELSE "float64"

\* the cells of a numeric column under its dtype
AsDtype(x) ==
    IF Dtype(x) = "float64" THEN [r \in DOMAIN x |-> FltCell(x[r].v)] ELSE x

KeyOf(t, r, on) == [k \in DOMAIN on |-> t.rows[r][ColIndex(t, on[k])]]

\* positions of the columns that are not join keys, in column order
RECURSIVE NonKeys(_, _, _)
NonKeys(t, on, n) ==
    IF n = 0 THEN <<>>
    ELSE IF t.cols[n] \in Range(on) THEN NonKeys(t, on, n - 1)
         ELSE Append(NonKeys(t, on, n - 1), n)

\* rows of `right`, in their order, whose key is that of row i of `left`
RECURSIVE Matches(_, _, _, _, _)
Matches(left, right, on, i, n) ==
    IF n = 0 THEN <<>>
    ELSE IF KeyOf(right, n, on) = KeyOf(left, i, on)
         THEN Append(Matches(left, right, on, i, n - 1), n)
         ELSE Matches(left, right, on, i, n - 1)

\* the rows a left join makes of the first i rows of `left`: one per
\* matching row of `right`, one filled with NaN when there is none
RECURSIVE MergeRows(_, _, _, _)
MergeRows(left, right, on, i) ==
    IF i = 0 THEN <<>>
    ELSE LET nk == NonKeys(right, on, Len(right.cols))
             ms == Matches(left, right, on, i, Len(right.rows))
             mine == IF ms = <<>>
                     THEN <<left.rows[i] \o [k \in DOMAIN nk |-> NaNCell]>>
                     ELSE [m \in DOMAIN ms |->
                             left.rows[i]
                               \o [k \in DOMAIN nk |-> right.rows[ms[m]][nk[k]]]]
         IN  MergeRows(left, right, on, i - 1) \o mine

\* the column index of a merge: columns both sides hold get _x and _y
MergeLabels(left, right, on) ==
    LET overlap == (Range(left.cols) \cap Range(right.cols)) \ Range(on)
        nk == NonKeys(right, on, Len(right.cols))
    IN  [i \in DOMAIN left.cols |->
           IF left.cols[i] \in overlap THEN left.cols[i] \o "_x"
           ELSE left.cols[i]]
          \o [k \in DOMAIN nk |->
                IF right.cols[nk[k]] \in overlap THEN right.cols[nk[k]] \o "_y"
                ELSE right.cols[nk[k]]]

\* every column under the dtype its cells give it
Recast(t) ==
    Frame(t.cols,
          [r \in DOMAIN t.rows |->
             [c \in DOMAIN t.cols |-> AsDtype(ColumnAt(t, c))[r]]])

\* left.merge(right, on=on, how="left")
merge_left(left, right, on) ==
    Recast(Frame(MergeLabels(left, right, on),
                 MergeRows(left, right, on, Len(left.rows))))

\* merging an object key with a numeric key raises ValueError
merge_raises(left, right, on) ==
    \E k \in DOMAIN on :
        (Dtype(Column(left, on[k])) = "object")
          # (Dtype(Column(right, on[k])) = "object")

(***************************************************************************)
(* The cache file: df_ds.to_csv(cache_file, index=False) and               *)
(* pd.read_csv(cache_file, low_memory=False).  A file is its header and    *)
(* the text of its lines.                                                  *)
(***************************************************************************)
Quote == "\""

\* csv.QUOTE_MINIMAL: a field holding the delimiter or a quote is quoted,
\* the quotes inside it doubled
RECURSIVE DoubleQuotes(_)
DoubleQuotes(s) ==
    IF s = <<>> THEN <<>>
    ELSE (IF Head(s) = Quote THEN <<Quote, Quote>> ELSE <<Head(s)>>)
           \o DoubleQuotes(Tail(s))

QuoteMinimal(s) ==
    IF \E i \in DOMAIN s : s[i] \in {",", Quote}
    THEN <<Quote>> \o DoubleQuotes(s) \o <<Quote>>
    ELSE s

IntText(n) == IF n < 0 THEN <<"-">> \o Digits(-n) ELSE Digits(n)

\* the digits after the point of rem/d, for the values whose expansion ends
RECURSIVE FracDigits(_, _)
FracDigits(rem, d) ==
    IF rem = 0 THEN <<>>
    ELSE <<DigitSeq[((rem * 10) \div d) + 1]>> \o FracDigits((rem * 10) % d, d)

\* repr of a float64; NaN is written as the empty field
FloatText(x) ==
    IF IsNaN(x) THEN <<>>
    ELSE IF x = PosInf THEN <<"i", "n", "f">>
    ELSE IF x = NegInf THEN <<"-", "i", "n", "f">>
    ELSE LET a == Abs(x[1])
             frac == FracDigits(a % x[2], x[2])
         IN  (IF x[1] < 0 THEN <<"-">> ELSE <<>>)
               \o Digits(a \div x[2]) \o <<".">>
               \o (IF frac = <<>> THEN <<"0">> ELSE frac)

CsvField(cell) ==
    IF cell.t = "str" THEN QuoteMinimal(cell.v)
    ELSE IF cell.t = "int" THEN IntText(cell.v[1])
    ELSE FloatText(cell.v)

RECURSIVE JoinFields(_)
JoinFields(fields) ==
    IF fields = <<>> THEN <<>>
    ELSE IF Len(fields) = 1 THEN fields[1]
    ELSE fields[1] \o <<",">> \o JoinFields(Tail(fields))

to_csv(t) ==
    [header |-> t.cols,
     lines |-> [r \in DOMAIN t.rows |->
                  JoinFields([c \in DOMAIN t.cols |-> CsvField(t.rows[r][c])])]]

\* the fields of a line from position i on; cur is the field being read,
\* inq tells whether the reader is inside a quoted field
RECURSIVE SplitFrom(_, _, _, _)
SplitFrom(s, i, cur, inq) ==
    IF i > Len(s) THEN <<cur>>
    ELSE IF inq
         THEN IF s[i] = Quote
              THEN IF At(s, i + 1) = Quote
                   THEN SplitFrom(s, i + 2, Append(cur, Quote), TRUE)
                   ELSE SplitFrom(s, i + 1, cur, FALSE)
              ELSE SplitFrom(s, i + 1, Append(cur, s[i]), TRUE)
         ELSE IF s[i] = "," THEN <<cur>> \o SplitFrom(s, i + 1, <<>>, FALSE)
              ELSE IF s[i] = Quote THEN SplitFrom(s, i + 1, cur, TRUE)
              ELSE SplitFrom(s, i + 1, Append(cur, s[i]), FALSE)

SplitLine(s) == SplitFrom(s, 1, <<>>, FALSE)

\* fields read_csv takes for missing (of its default list)
NAValues ==
    { <<>>, <<"N", "A">>, <<"N", "/", "A">>, <<"N", "a", "N">>,
      <<"n", "a", "n">>, <<"n", "u", "l", "l">>, <<"N", "U", "L", "L">> }

Unsigned(w) == IF w # <<>> /\ w[1] \in {"-", "+"} THEN Tail(w) ELSE w

IsNegative(w) == w # <<>> /\ w[1] = "-"

IsIntText(w) ==
    /\ Unsigned(w) # <<>>
    /\ \A k \in DOMAIN Unsigned(w) : Unsigned(w)[k] \in DigitChars

PointAt(w) == IF \E k \in DOMAIN w : w[k] = "." 
              THEN CHOOSE k \in DOMAIN w : w[k] = "." ELSE 0

IsFloatText(w) ==
    LET u == Unsigned(w)
        p == PointAt(u)
        whole == IF p = 0 THEN u ELSE SubSeq(u, 1, p - 1)
        frac == IF p = 0 THEN <<>> ELSE SubSeq(u, p + 1, Len(u))
    IN  \/ u = <<"i", "n", "f">>
        \/ /\ whole \o frac # <<>>
           /\ \A k \in DOMAIN whole : whole[k] \in DigitChars
           /\ \A k \in DOMAIN frac : frac[k] \in DigitChars

IntValue(w) ==
    IF IsNegative(w) THEN -DecimalValue(Unsigned(w))
    ELSE DecimalValue(Unsigned(w))

FloatValue(w) ==
    LET u == Unsigned(w)
        p == PointAt(u)
        whole == IF p = 0 THEN u ELSE SubSeq(u, 1, p - 1)
        frac == IF p = 0 THEN <<>> ELSE SubSeq(u, p + 1, Len(u))
        mag == Ratio(DecimalValue(whole \o frac), Pow10(Len(frac)))
    IN  IF u = <<"i", "n", "f">>
        THEN (IF IsNegative(w) THEN NegInf ELSE PosInf)
        ELSE IF IsNegative(w) THEN FNeg(mag) ELSE mag

\* type inference of read_csv on the fields of one column
ReadColumn(x) ==
    LET given == {r \in DOMAIN x : x[r] \notin NAValues}
    IN  IF \A r \in given : IsIntText(x[r])
        THEN IF given = DOMAIN x
             THEN [r \in DOMAIN x |-> IntCell(IntValue(x[r]))]
             ELSE [r \in DOMAIN x |->
                     IF r \in given THEN FltCell(Num(IntValue(x[r])))
                     ELSE NaNCell]
        ELSE IF \A r \in given : IsFloatText(x[r])
        THEN [r \in DOMAIN x |->
                IF r \in given THEN FltCell(FloatValue(x[r])) ELSE NaNCell]
        ELSE [r \in DOMAIN x |->
                IF r \in given THEN StrCell(x[r]) ELSE NaNCell]

read_csv(file) ==
    LET fields == [r \in DOMAIN file.lines |-> SplitLine(file.lines[r])]
        column(c) == ReadColumn([r \in DOMAIN fields |-> fields[r][c]])
    IN  Frame(file.header,
              [r \in DOMAIN fields |->
                 [c \in DOMAIN file.header |-> column(c)[r]]])

(***************************************************************************)
(* main() on tables with rows: per dataset the live table or the cache     *)
(* snapshot read back, then the left joins of step 3-C.  The tables hold   *)
(* every requested code, so the completeness check passes on both paths.   *)
(***************************************************************************)
MaxFrames == 2

Chars_66 == <<"6", "6">>

Chars_010 == <<"0", "1", "0">>

Chars_020 == <<"0", "2", "0">>

NameA == <<"A", "g", "a", "t", ",", " ", "G", "U">>

NameB == <<"B", "a", "r", "r">>

\* the rows of a response: the value, NAME, state, place
PlaceRow(value, name, place) ==
    <<value, StrCell(name), StrCell(Chars_66), StrCell(place)>>

\* tables as download_data returns them for one batch of one token
DatasetTables ==
    { Frame(<<"DP1_0001C", "NAME", "state", "place">>,
            <<PlaceRow(IntCell(100), NameA, Chars_010),
              PlaceRow(IntCell(80), NameB, Chars_020)>>),
      Frame(<<"DP1_0002C", "NAME", "state", "place">>,
            <<PlaceRow(FltCell(<<25, 2>>), NameA, Chars_010),
              PlaceRow(NaNCell, NameB, Chars_020)>>),
      \* the place 010 twice
      Frame(<<"DP1_0002C", "NAME", "state", "place">>,
            <<PlaceRow(IntCell(5), NameA, Chars_010),
              PlaceRow(IntCell(7), NameA, Chars_010),
              PlaceRow(IntCell(9), NameB, Chars_020)>>),
      \* the place 010 missing
      Frame(<<"DP1_0003C", "NAME", "state", "place">>,
            <<PlaceRow(IntCell(1), NameB, Chars_020)>>) }

InitMerge ==
    /\ live_tables \in UNION {[1..n -> DatasetTables] : n \in 1..MaxFrames}
    /\ tpc = "fetch"
    /\ ti = 1
    /\ tds = <<>>
    /\ snap = <<>>
    /\ from_cache = FALSE
    /\ tframes = <<>>
    /\ merged = <<>>
    /\ BaseIdle
    /\ CfgIdle
    /\ FetchIdle

\* download_data returns
TFetchLive ==
    /\ tpc = "fetch"
    /\ tds' = live_tables[ti]
    /\ from_cache' = FALSE
    /\ tpc' = "persist"
    /\ UNCHANGED <<live_tables, ti, snap, tframes, merged>>
    /\ UNCHANGED <<driverVars, hsiVars, cfgVars, fetchVars>>

\* df_ds.to_csv(cache_file, index=False)
TPersist ==
    /\ tpc = "persist"
    /\ snap' = to_csv(tds)
    /\ tpc' = "append"
    /\ UNCHANGED <<live_tables, ti, tds, from_cache, tframes, merged>>
    /\ UNCHANGED <<driverVars, hsiVars, cfgVars, fetchVars>>

\* download_data raises and the cache file exists: the snapshot an earlier
\* run wrote of the table download_data returned to it is read back
TFallback ==
    /\ tpc = "fetch"
    /\ snap' = to_csv(live_tables[ti])
    /\ tds' = read_csv(to_csv(live_tables[ti]))
    /\ from_cache' = TRUE
    /\ tpc' = "append"
    /\ UNCHANGED <<live_tables, ti, tframes, merged>>
    /\ UNCHANGED <<driverVars, hsiVars, cfgVars, fetchVars>>

\* frames.append(df_ds) and the next turn of the loop
TAppend ==
    /\ tpc = "append"
    /\ tframes' = Append(tframes, tds)
    /\ ti' = ti + 1
    /\ tpc' = IF ti + 1 > Len(live_tables) THEN "merge" ELSE "fetch"
    /\ UNCHANGED <<live_tables, tds, snap, from_cache, merged>>
    /\ UNCHANGED <<driverVars, hsiVars, cfgVars, fetchVars>>

\* df_raw = frames[0]
TMergeFirst ==
    /\ tpc = "merge"
    /\ merged' = tframes[1]
    /\ ti' = 2
    /\ tpc' = "merging"
    /\ UNCHANGED <<live_tables, tds, snap, from_cache, tframes>>
    /\ UNCHANGED <<driverVars, hsiVars, cfgVars, fetchVars>>

\* df_raw = df_raw.merge(extra, on=geokeys, how="left")
TMergeStep ==
    /\ tpc = "merging"
    /\ ti <= Len(tframes)
    /\ ~merge_raises(merged, tframes[ti], GeoKeyList)
    /\ merged' = merge_left(merged, tframes[ti], GeoKeyList)
    /\ ti' = ti + 1
    /\ UNCHANGED <<live_tables, tpc, tds, snap, from_cache, tframes>>
    /\ UNCHANGED <<driverVars, hsiVars, cfgVars, fetchVars>>

\* the merge raises ValueError: the keys are str on one side, int64 on the other
TMergeRaises ==
    /\ tpc = "merging"
    /\ ti <= Len(tframes)
    /\ merge_raises(merged, tframes[ti], GeoKeyList)
    /\ tpc' = "raised"
    /\ UNCHANGED <<live_tables, ti, tds, snap, from_cache, tframes, merged>>
    /\ UNCHANGED <<driverVars, hsiVars, cfgVars, fetchVars>>

\* the loop of step 3-C is over
TMergeReturn ==
    /\ tpc = "merging"
    /\ ti > Len(tframes)
    /\ tpc' = "merged"
    /\ UNCHANGED <<live_tables, ti, tds, snap, from_cache, tframes, merged>>
    /\ UNCHANGED <<driverVars, hsiVars, cfgVars, fetchVars>>

NextMerge ==
    \/ TFetchLive
    \/ TPersist
    \/ TFallback
    \/ TAppend
    \/ TMergeFirst
    \/ TMergeStep
    \/ TMergeRaises
    \/ TMergeReturn

SpecMerge == InitMerge /\ [][NextMerge]_vars

(***************************************************************************)
(* Claims about the merge and the cache snapshot, checked under SpecMerge. *)
(***************************************************************************)
HasDuplicateKeys(t, on) ==
    \E r1, r2 \in DOMAIN t.rows : r1 # r2 /\ KeyOf(t, r1, on) = KeyOf(t, r2, on)

\* C12: the merge stage fails when a table after the first holds two rows
\* with the same geography key: whenever the merge returns, no later table
\* has a duplicate key and the merged table has as many rows as the first
\* table.
C12_MergeRejectsDuplicateKeys ==
    tpc = "merged" =>
        /\ \A k \in 2..Len(tframes) : ~HasDuplicateKeys(tframes[k], GeoKeyList)
        /\ Len(merged.rows) = Len(tframes[1].rows)

\* equal cells: the same string, the same number, or both missing
CellSame(a, b) ==
    IF a.t = "str" \/ b.t = "str" THEN a.t = b.t /\ a.v = b.v ELSE a.v = b.v

FrameSame(a, b) ==
    /\ a.cols = b.cols
    /\ Len(a.rows) = Len(b.rows)
    /\ \A r \in DOMAIN a.rows : \A c \in DOMAIN a.cols :
           CellSame(a.rows[r][c], b.rows[r][c])

\* C16: the table read back from the cache file equals, column by column,
\* the table that was written to it (the geography keys, NAME and the raw
\* fields; missing stays missing).
C16_CacheRoundTrip ==
    (tpc = "append" /\ from_cache) => FrameSame(tds, live_tables[ti])

(***************************************************************************)
(* download_data(var_codes, ...) of fetch.py for the geography "place".    *)
(* The remote source answers a request with a header row (the fields of    *)
(* "get", then the geography columns) and one row of strings per place,    *)
(* or it fails.                                                            *)
(***************************************************************************)
MaxCodes == 101

CHUNK_SIZE == 50

BAD_SENTINELS == {-888888888, -999999999}

\* the j-th token of the list
TokenName(j) == "DP1_" \o ToString(1000 + j) \o "C"

CodeListOf(n) == [j \in 1..n |-> TokenName(j)]

Min(a, b) == IF a < b THEN a ELSE b

\* a slice that stops one short of CHUNK_SIZE
ChunkOneShort(list, i) == SubSeq(list, i + 1, Min(i + CHUNK_SIZE - 1, Len(list)))

\* var_codes[i : i + CHUNK_SIZE]
Chunk(list, i) == SubSeq(list, i + 1, Min(i + CHUNK_SIZE, Len(list)))

\* chunk + ["NAME"]
GetFields(chunk) == chunk \o <<"NAME">>

PlaceNames == <<NameA, NameB>>

PlaceCodes == <<Chars_010, Chars_020>>

\* the string the remote source holds for token j at place r: a count, a
\* "no data" sentinel, a decimal, or a flag that is no number
ResponseValue(j, r) ==
    CASE j % 4 = 1 -> Digits(j + r)
      [] j % 4 = 2 -> <<"-">> \o Digits(888888888)
      [] j % 4 = 3 -> Digits(j) \o <<".", "5">>
      [] OTHER -> <<"N">>

\* pd.DataFrame(json_rows[1:], columns=json_rows[0]) of the answer to the
\* request for the chunk at offset i
Response(i, chunk) ==
    Frame(GetFields(chunk) \o GeoKeyList,
          [r \in DOMAIN PlaceCodes |->
             [c \in DOMAIN chunk |-> StrCell(ResponseValue(i + c, r))]
               \o <<StrCell(PlaceNames[r]), StrCell(Chars_66),
                    StrCell(PlaceCodes[r])>>])

\* lines 246-248 over the first n partials
RECURSIVE MergePartials(_, _)
MergePartials(ps, n) ==
    IF n = 1 THEN ps[1]
    ELSE merge_left(MergePartials(ps, n - 1), ps[n], GeoKeyList)

\* pd.to_numeric(col, errors="coerce")
to_numeric_coerce(x) ==
    AsDtype([r \in DOMAIN x |->
               IF x[r].t # "str" THEN x[r]
               ELSE IF IsIntText(x[r].v) THEN IntCell(IntValue(x[r].v))
               ELSE IF IsFloatText(x[r].v) THEN FltCell(FloatValue(x[r].v))
               ELSE NaNCell])

\* geo_cols = set(["NAME", *geokeys])
geo_cols == {"NAME"} \cup Range(GeoKeyList)

\* lines 252-253
CoerceColumns(t) ==
    Frame(t.cols,
          [r \in DOMAIN t.rows |->
             [c \in DOMAIN t.cols |->
                IF t.cols[c] \in geo_cols THEN t.rows[r][c]
                ELSE to_numeric_coerce(ColumnAt(t, c))[r]]])

\* df.replace(BAD_SENTINELS, np.nan)
ReplaceSentinels(t) ==
    Recast(Frame(t.cols,
                 [r \in DOMAIN t.rows |->
                    [c \in DOMAIN t.cols |->
                       IF /\ t.rows[r][c].t # "str"
                          /\ t.rows[r][c].v[2] = 1
                          /\ t.rows[r][c].v[1] \in BAD_SENTINELS
                       THEN NaNCell
                       ELSE t.rows[r][c]]]))

InitFetch ==
    /\ var_codes \in {CodeListOf(n) : n \in 0..MaxCodes}
    /\ fpc = "loop"
    /\ fi = 0
    /\ sent = <<>>
    /\ partials = <<>>
    /\ fdf = <<>>
    /\ BaseIdle
    /\ CfgIdle
    /\ MergeIdle

\* one turn of the loop: the request is answered
FetchRequest ==
    /\ fpc = "loop"
    /\ fi < Len(var_codes)
    /\ sent' = Append(sent, GetFields(Chunk(var_codes, fi)))
    /\ partials' = Append(partials, Response(fi, Chunk(var_codes, fi)))
    /\ fi' = fi + CHUNK_SIZE
    /\ UNCHANGED <<var_codes, fpc, fdf>>
    /\ UNCHANGED <<driverVars, hsiVars, cfgVars, mergeVars>>

\* one turn of the loop: requests.get or raise_for_status raises
FetchRequestFails ==
    /\ fpc = "loop"
    /\ fi < Len(var_codes)
    /\ sent' = Append(sent, GetFields(Chunk(var_codes, fi)))
    /\ fpc' = "raised"
    /\ UNCHANGED <<var_codes, fi, partials, fdf>>
    /\ UNCHANGED <<driverVars, hsiVars, cfgVars, mergeVars>>

\* partials[0] of an empty list raises IndexError
FetchNoPartials ==
    /\ fpc = "loop"
    /\ fi >= Len(var_codes)
    /\ partials = <<>>
    /\ fpc' = "raised"
    /\ UNCHANGED <<var_codes, fi, sent, partials, fdf>>
    /\ UNCHANGED <<driverVars, hsiVars, cfgVars, mergeVars>>

\* the batch tables are merged on the geography keys
FetchMerge ==
    /\ fpc = "loop"
    /\ fi >= Len(var_codes)
    /\ partials # <<>>
    /\ fdf' = MergePartials(partials, Len(partials))
    /\ fpc' = "coerce"
    /\ UNCHANGED <<var_codes, fi, sent, partials>>
    /\ UNCHANGED <<driverVars, hsiVars, cfgVars, mergeVars>>

\* numeric coercion, sentinels, return df
FetchCoerce ==
    /\ fpc = "coerce"
    /\ fdf' = ReplaceSentinels(CoerceColumns(fdf))
    /\ fpc' = "returned"
    /\ UNCHANGED <<var_codes, fi, sent, partials>>
    /\ UNCHANGED <<driverVars, hsiVars, cfgVars, mergeVars>>

NextFetch ==
    \/ FetchRequest
    \/ FetchRequestFails
    \/ FetchNoPartials
    \/ FetchMerge
    \/ FetchCoerce

SpecFetch == InitFetch /\ [][NextFetch]_vars

(***************************************************************************)
(* Claims about download_data, checked under SpecFetch.                    *)
(***************************************************************************)
\* the batch a request asked for: its "get" list without the final NAME
Batches == [b \in DOMAIN sent |-> SubSeq(sent[b], 1, Len(sent[b]) - 1)]

RECURSIVE Flatten(_)
Flatten(ss) == IF ss = <<>> THEN <<>> ELSE Head(ss) \o Flatten(Tail(ss))

LoopOver == fi >= Len(var_codes)

\* C14: the requests ask, in order, for consecutive batches of one to
\* CHUNK_SIZE tokens of the list: the batches sent so far concatenate to a
\* prefix of the token list and no token is in two batches; once the loop
\* is over they concatenate to the whole list, every token is in exactly
\* one batch, and there is one batch table per request.
C14_BatchesPartitionTheTokenList ==
    /\ \A b \in DOMAIN sent :
           /\ Len(Batches[b]) \in 1..CHUNK_SIZE
           /\ sent[b][Len(sent[b])] = "NAME"
    /\ Len(Flatten(Batches)) <= Len(var_codes)
    /\ Flatten(Batches) = SubSeq(var_codes, 1, Len(Flatten(Batches)))
    /\ \A j \in DOMAIN var_codes :
           Cardinality({b \in DOMAIN sent : var_codes[j] \in Range(Batches[b])})
             <= 1
    /\ LoopOver =>
           /\ Flatten(Batches) = var_codes
           /\ \A j \in DOMAIN var_codes :
                  \E b \in DOMAIN sent : var_codes[j] \in Range(Batches[b])
           /\ Len(partials) = Len(sent)

\* a list of two full batches and one token more was fetched in three
\* requests
C14_Witness ==
    /\ fpc = "returned"
    /\ Len(var_codes) = 2 * CHUNK_SIZE + 1
    /\ Len(sent) = 3
    /\ Len(Batches[3]) = 1

\* C15: no request asks for more than 50 fields in its "get" list, NAME
\* counted.
C15_RequestAsksAtMostFiftyFields ==
    \A b \in DOMAIN sent : Len(sent[b]) <= CHUNK_SIZE

\* C17: the table download_data returns has the geography key columns, one
\* column NAME holding the label of each place unchanged, and one column
\* per requested token, whatever the number of batches.
C17_ReturnedColumnsKeepOneName ==
    fpc = "returned" =>
        /\ Range(fdf.cols) = Range(var_codes) \cup {"NAME"} \cup Range(GeoKeyList)
        /\ Len(fdf.cols) = Len(var_codes) + 1 + Len(GeoKeyList)
        /\ \A r \in DOMAIN fdf.rows :
               /\ fdf.rows[r][ColIndex(fdf, "NAME")] = StrCell(PlaceNames[r])
               /\ \A k \in DOMAIN GeoKeyList :
                      fdf.rows[r][ColIndex(fdf, GeoKeyList[k])].t = "str"

====
